---- MODULE Spec2Model ----
(***************************************************************************)
(* Model of demo_recommend (src/Chatbot_Recommender.py): the scoring and   *)
(* author-diversity re-ranking of the in-memory demo catalog.              *)
(*                                                                         *)
(* Numbers.  The code computes in floats; the model computes the same      *)
(* expressions exactly, in fixed point: sub-scores, weights, popularity    *)
(* and the popularity coefficients are in hundredths (0.55 is 55), a       *)
(* composite score is in ten-thousandths (a product of two hundredths).    *)
(* Strings.  The Korean literals of the source are written in ASCII:       *)
(* "장르 일치" is "genre match", "톤 일치" is "tone match", "최근 5년 필터"  *)
(* is "recent-years filter", "발굴 가중" is "discovery boost", "유명도 가중" *)
(* is "popularity boost", "균형 가중" is "balanced boost"; the tones "잔잔"  *)
(* and "스릴" are "calm" and "thrill", the genre "소설" is "novel".          *)
(***************************************************************************)
EXTENDS Integers, Sequences, FiniteSets

VARIABLES DEMO_DB, prefs, k, mode, explore_strength, scored, picked, pc

vars == <<DEMO_DB, prefs, k, mode, explore_strength, scored, picked, pc>>

(* ------------------------------ bounds -------------------------------- *)
\* longest catalog of the author-diversity inputs
MaxBooks == 4
\* largest k of the author-diversity inputs
MaxK == 3
\* longest catalog of the scoring inputs
MaxBooksFull == 2

(* ------------------------- program constants -------------------------- *)
RECENT_YEARS == 5
\* datetime.utcnow().year at import time
CURRENT_YEAR == 2026
W_GENRE == 55
W_TONE == 30
W_RECENT == 15
\* default arguments of demo_recommend
DefaultK == 5
DefaultMode == "famous"
DefaultExplore == 60

None == "None"

(* --------------------------- input domains ---------------------------- *)
Authors == {"A", "B", "C"}
\* one year just below the recent-years cutoff, and the cutoff year itself
Years == {CURRENT_YEAR - RECENT_YEARS - 1, CURRENT_YEAR - RECENT_YEARS}
Tones == {"calm", "thrill"}
\* the tone the user asks for: none, or one that a book may or may not have
UserTones == {None, "calm"}
BookGenreNames == {"SF", "novel"}
UserGenreNames == {"sf", "novel"}
Popularities == {20, 90}
Modes == {"famous", "balanced", "discover"}
ExploreVals == {30, 100}

SeqsUpTo(S, n) == UNION {[1..m -> S] : m \in 0..n}

\* (title, author, year, tone, genres, popularity); the title is never read
BooksDiverse ==
    [author : Authors, year : Years, tone : {"calm"},
     genres : {{"novel"}}, popularity : {90}]

BooksFull ==
    [author : {"A"}, year : Years, tone : Tones,
     genres : SUBSET BookGenreNames \ {{}}, popularity : Popularities]

(* ------------------------------ helpers ------------------------------- *)
\* str.lower() on the genre names in use
Lower(g) == IF g = "SF" THEN "sf" ELSE g

Max(a, b) == IF a >= b THEN a ELSE b

\* _genre_overlap, in hundredths
_genre_overlap(user_genres, book_genres) ==
    LET ug == {Lower(g) : g \in user_genres}
        bg == {Lower(g) : g \in book_genres}
    IN  IF ug = {} THEN 20
        ELSE (100 * Cardinality(ug \cap bg)) \div Max(1, Cardinality(ug))

\* (pop_alpha, pop_beta) of a mode, in hundredths
PopWeights(m, e) ==
    IF m = "famous" THEN <<30, 0>>
    ELSE IF m = "balanced" THEN <<15, 10>>
    ELSE <<0, e>>

SGenre(p, rec) == _genre_overlap(p.genres, rec.genres)

\* a bug: no credit at all for a tone that differs
SToneNoPartial(p, rec) ==
    IF p.tone # None /\ p.tone = rec.tone THEN 100
    ELSE IF p.tone = None THEN 50 ELSE 0

STone(p, rec) ==
    IF p.tone # None /\ p.tone = rec.tone THEN 100
    ELSE IF p.tone = None THEN 50 ELSE 20

SRecent(rec) == IF rec.year >= CURRENT_YEAR - RECENT_YEARS THEN 100 ELSE 50

\* a bug: pop_beta rewards popularity instead of its complement
PopScoreNoComplement(rec, m, e) ==
    LET w == PopWeights(m, e)
    IN  w[1] * rec.popularity + w[2] * rec.popularity

PopScore(rec, m, e) ==
    LET w == PopWeights(m, e)
    IN  w[1] * rec.popularity + w[2] * (100 - rec.popularity)

\* score of one record, in ten-thousandths
Score(p, rec, m, e) ==
    (W_GENRE * SGenre(p, rec) + W_TONE * STone(p, rec) + W_RECENT * SRecent(rec))
    + PopScore(rec, m, e)

\* a bug: "tone match" for any tone sub-score that is not the mismatch value
WhyToneLoose(p, rec, m) ==
    (IF SGenre(p, rec) > 0 THEN <<"genre match">> ELSE <<>>)
    \o (IF STone(p, rec) > 20 THEN <<"tone match">> ELSE <<>>)
    \o (IF p.recent_only THEN <<"recent-years filter">> ELSE <<>>)
    \o (IF m = "discover" THEN <<"discovery boost">>
        ELSE IF m = "famous" THEN <<"popularity boost">>
        ELSE <<"balanced boost">>)

\* the rationale list of one record
Why(p, rec, m) ==
    (IF SGenre(p, rec) > 0 THEN <<"genre match">> ELSE <<>>)
    \o (IF STone(p, rec) = 100 THEN <<"tone match">> ELSE <<>>)
    \o (IF p.recent_only THEN <<"recent-years filter">> ELSE <<>>)
    \o (IF m = "discover" THEN <<"discovery boost">>
        ELSE IF m = "famous" THEN <<"popularity boost">>
        ELSE <<"balanced boost">>)

\* a bug: the cutoff year itself is filtered out
FilteredInclusive(p, rec) ==
    p.recent_only /\ rec.year <= CURRENT_YEAR - RECENT_YEARS

\* the filter of the scoring loop: TRUE when the record is skipped
Filtered(p, rec) == p.recent_only /\ rec.year < CURRENT_YEAR - RECENT_YEARS

\* the scoring loop over DEMO_DB[i..]; an entry's rec is the record's
\* position in DEMO_DB (the tuple object the entry holds)
RECURSIVE ScoreLoop(_, _, _, _, _, _)
ScoreLoop(db, p, m, e, i, acc) ==
    IF i > Len(db) THEN acc
    ELSE IF Filtered(p, db[i]) THEN ScoreLoop(db, p, m, e, i + 1, acc)
    ELSE ScoreLoop(db, p, m, e, i + 1,
            Append(acc, [rec |-> i, score |-> Score(p, db[i], m, e),
                         why |-> Why(p, db[i], m)]))

\* a bug: reverse=True forgotten, an ascending sort
InsertAsc(s, x) ==
    LET n == Cardinality({j \in 1..Len(s) : s[j].score <= x.score})
    IN  SubSeq(s, 1, n) \o <<x>> \o SubSeq(s, n + 1, Len(s))

\* a bug: a descending sort that puts x in front of its equals (sorting
\* ascending and reversing the list)
InsertDescUnstable(s, x) ==
    LET n == Cardinality({j \in 1..Len(s) : s[j].score > x.score})
    IN  SubSeq(s, 1, n) \o <<x>> \o SubSeq(s, n + 1, Len(s))

\* where list.sort(reverse=True) puts x in an already sorted list: behind
\* every entry whose key is not smaller (a stable descending sort)
InsertDesc(s, x) ==
    LET n == Cardinality({j \in 1..Len(s) : s[j].score >= x.score})
    IN  SubSeq(s, 1, n) \o <<x>> \o SubSeq(s, n + 1, Len(s))

RECURSIVE SortDesc(_)
SortDesc(s) ==
    IF s = <<>> THEN <<>>
    ELSE InsertDesc(SortDesc(SubSeq(s, 1, Len(s) - 1)), s[Len(s)])

\* a bug: no last-slot relaxation
SkipRepeatAlways(author, seen_authors, npicked, kk) ==
    author \in seen_authors

\* a bug: the relaxation starts one slot early
SkipRepeatEarlyRelax(author, seen_authors, npicked, kk) ==
    author \in seen_authors /\ npicked < kk - 2

\* the skip test of the diversity walk
SkipRepeat(author, seen_authors, npicked, kk) ==
    author \in seen_authors /\ npicked < kk - 1

\* a bug: the walk stops one pick late
WalkDoneLate(npicked, kk) == npicked > kk

\* a bug: the walk stops one pick early
WalkDoneEarly(npicked, kk) == npicked >= kk - 1

\* the break test of the diversity walk
WalkDone(npicked, kk) == npicked >= kk

\* the diversity walk over sc[i..]
RECURSIVE Walk(_, _, _, _, _, _)
Walk(db, sc, kk, i, pk, seen) ==
    IF i > Len(sc) THEN pk
    ELSE LET author == db[sc[i].rec].author
         IN  IF SkipRepeat(author, seen, Len(pk), kk)
             THEN Walk(db, sc, kk, i + 1, pk, seen)
             ELSE LET pk2 == Append(pk, sc[i])
                  IN  IF WalkDone(Len(pk2), kk) THEN pk2
                      ELSE Walk(db, sc, kk, i + 1, pk2, seen \cup {author})

(* ------------------------------- state -------------------------------- *)
\* inputs that exercise the author-diversity walk: several authors, default
\* mode and explore_strength, no genre or tone preference
InitDiverse ==
    /\ DEMO_DB \in SeqsUpTo(BooksDiverse, MaxBooks)
    /\ prefs \in [genres : {{}}, tone : {None}, recent_only : BOOLEAN]
    /\ k \in 1..MaxK
    /\ mode = DefaultMode
    /\ explore_strength = DefaultExplore

\* inputs that exercise the scoring: every preference, mode and strength
InitFull ==
    /\ DEMO_DB \in SeqsUpTo(BooksFull, MaxBooksFull)
    /\ prefs \in [genres : SUBSET UserGenreNames, tone : UserTones,
                  recent_only : BOOLEAN]
    /\ k = DefaultK
    /\ mode \in Modes
    /\ explore_strength \in ExploreVals

Init ==
    /\ InitDiverse \/ InitFull
    /\ scored = <<>>
    /\ picked = <<>>
    /\ pc = "score"

\* lines 74-100: filter and score every record of DEMO_DB
ScoreCatalog ==
    /\ pc = "score"
    /\ scored' = ScoreLoop(DEMO_DB, prefs, mode, explore_strength, 1, <<>>)
    /\ pc' = "sort"
    /\ UNCHANGED <<DEMO_DB, prefs, k, mode, explore_strength, picked>>

\* line 103: scored.sort(key=score, reverse=True)
SortScored ==
    /\ pc = "sort"
    /\ scored' = SortDesc(scored)
    /\ pc' = "pick"
    /\ UNCHANGED <<DEMO_DB, prefs, k, mode, explore_strength, picked>>

\* lines 104-114: the author-diversity walk, and the return
PickDiverse ==
    /\ pc = "pick"
    /\ picked' = Walk(DEMO_DB, scored, k, 1, <<>>, {})
    /\ pc' = "done"
    /\ UNCHANGED <<DEMO_DB, prefs, k, mode, explore_strength, scored>>

Next == ScoreCatalog \/ SortScored \/ PickDiverse

Spec == Init /\ [][Next]_vars

(* ----------------------- vocabulary of the claims --------------------- *)
Done == pc = "done"
Scored == pc # "score"
Sorted == pc \in {"pick", "done"}

Cutoff == CURRENT_YEAR - 5

\* positions of the catalog books that survive the recent-years filter
Survivors ==
    {i \in 1..Len(DEMO_DB) : ~(prefs.recent_only /\ DEMO_DB[i].year < Cutoff)}

AuthorOf(e) == DEMO_DB[e.rec].author
YearOf(e) == DEMO_DB[e.rec].year

SurvivorAuthors == {DEMO_DB[i].author : i \in Survivors}

\* authors of the first p entries of the sorted list
PrefixAuthors(p) == {AuthorOf(scored[j]) : j \in 1..p}

\* the final slot of a full result repeats an author of an earlier slot
LastSlotRepeats ==
    /\ Len(picked) = k
    /\ k >= 2
    /\ \E i \in 1..(k - 1) : AuthorOf(picked[i]) = AuthorOf(picked[k])

\* the walk skipped a survivor ranked above the last pick
SkippedOne ==
    /\ picked # <<>>
    /\ \E j \in 1..Len(scored) :
          /\ \A i \in 1..Len(picked) : picked[i].rec # scored[j].rec
          /\ \E i \in 1..Len(scored) :
                i > j /\ scored[i].rec = picked[Len(picked)].rec

(* ------------------------------- claims ------------------------------- *)

\* C1: the result has at most k entries and at most as many entries as
\* there are catalog books that survive the recent-years filter.
C1_Bound ==
    Done => /\ Len(picked) <= k
            /\ Len(picked) <= Cardinality(Survivors)

\* the walk stopped at k picks with survivors left over
C1_Witness ==
    Done /\ Len(picked) = k /\ Cardinality(Survivors) > k /\ prefs.recent_only

\* C2 (as stated): whenever at least k books survive the filter, the result
\* has exactly k entries, also when the survivors share authors.
C2_FillsWhenEnoughSurvive ==
    Done /\ Cardinality(Survivors) >= k => Len(picked) = k

\* C2 (amended): the result has exactly k entries exactly when some survivor
\* is ranked behind a prefix of the sorted list that already holds k-1
\* distinct authors; that survivor fills the final slot whoever wrote it.
C2_FillsOnlyLastSlot ==
    Done => (Len(picked) = k <=>
               \E p \in 0..(Len(scored) - 1) :
                  Cardinality(PrefixAuthors(p)) >= k - 1)

\* a repeated author fills the final slot of a result whose survivors have
\* fewer than k distinct authors
C2_Witness ==
    Done /\ LastSlotRepeats /\ Cardinality(SurvivorAuthors) < k

\* C3: the authors at positions 1..k-1 of the result are pairwise distinct,
\* and a result shorter than k repeats no author.
C3_RepeatOnlyInLastSlot ==
    Done =>
      /\ \A i, j \in 1..Len(picked) :
            i < j /\ j <= k - 1 => AuthorOf(picked[i]) # AuthorOf(picked[j])
      /\ Len(picked) < k =>
            \A i, j \in 1..Len(picked) :
               i < j => AuthorOf(picked[i]) # AuthorOf(picked[j])

\* a three-slot result whose final slot repeats an author after the walk
\* skipped a repeat for an earlier slot
C3_Witness ==
    Done /\ k = 3 /\ LastSlotRepeats /\ SkippedOne

\* C4: the result is in descending score order.
C4_Descending ==
    Done => \A i \in 1..(Len(picked) - 1) : picked[i].score >= picked[i + 1].score

\* two picks in strictly descending score order that the sort had to swap
C4_Witness ==
    /\ Done
    /\ \E i \in 1..(Len(picked) - 1) :
          /\ picked[i].score > picked[i + 1].score
          /\ picked[i].rec > picked[i + 1].rec

\* C10: if the survivors are written by at least k distinct authors, the
\* result has exactly k entries.
C10_FullWhenEnoughAuthors ==
    Done /\ Cardinality(SurvivorAuthors) >= k => Len(picked) = k

\* three distinct authors fill three slots although the walk skipped a repeat
C10_Witness ==
    /\ Done /\ k = 3 /\ Len(picked) = 3 /\ SkippedOne
    /\ Cardinality(SurvivorAuthors) >= 3
    /\ ~LastSlotRepeats

\* C5: with recent_only set, no book whose year is below CURRENT_YEAR - 5 is
\* scored or returned, and every book of a year >= CURRENT_YEAR - 5 (the
\* cutoff year included) is scored.
C5_HardFilter ==
    prefs.recent_only =>
      /\ Scored => {scored[j].rec : j \in 1..Len(scored)}
                     = {i \in 1..Len(DEMO_DB) : DEMO_DB[i].year >= Cutoff}
      /\ \A i \in 1..Len(picked) : YearOf(picked[i]) >= Cutoff

\* the filter dropped a book, and a book of the cutoff year was returned
C5_Witness ==
    /\ Done /\ prefs.recent_only
    /\ \E i \in 1..Len(DEMO_DB) : DEMO_DB[i].year < Cutoff
    /\ \E i \in 1..Len(picked) : YearOf(picked[i]) = Cutoff

\* the sub-scores and coefficients as the claim C6 words them, in hundredths
ClaimOverlapLiteral(rec) ==
    IF prefs.genres = {} THEN 20
    ELSE (100 * Cardinality(prefs.genres \cap rec.genres))
            \div Cardinality(prefs.genres)

ClaimOverlapLower(rec) ==
    LET req == {Lower(g) : g \in prefs.genres}
        has == {Lower(g) : g \in rec.genres}
    IN  IF prefs.genres = {} THEN 20
        ELSE (100 * Cardinality(req \cap has)) \div Cardinality(req)

ClaimTone(rec) ==
    IF prefs.tone = None THEN 50
    ELSE IF prefs.tone = rec.tone THEN 100 ELSE 20

ClaimRecency(rec) == IF rec.year >= Cutoff THEN 100 ELSE 50

ClaimAlpha == IF mode = "famous" THEN 30 ELSE IF mode = "balanced" THEN 15 ELSE 0

ClaimBeta ==
    IF mode = "famous" THEN 0
    ELSE IF mode = "balanced" THEN 10 ELSE explore_strength

ClaimScore(overlap, rec) ==
    55 * overlap + 30 * ClaimTone(rec) + 15 * ClaimRecency(rec)
    + ClaimAlpha * rec.popularity + ClaimBeta * (100 - rec.popularity)

\* C6 (as stated): every survivor's score is 0.55*genreOverlap + 0.30*toneMatch
\* + 0.15*recencyBonus + alpha*popularity + beta*(1 - popularity), with
\* genreOverlap = |requested \cap book genres| / |requested|.
C6_ScoreFormulaLiteral ==
    Scored =>
      /\ {scored[j].rec : j \in 1..Len(scored)} = Survivors
      /\ \A j \in 1..Len(scored) :
            scored[j].score
              = ClaimScore(ClaimOverlapLiteral(DEMO_DB[scored[j].rec]),
                           DEMO_DB[scored[j].rec])

\* C6 (amended): the same, with the requested and the book's genres compared
\* after lower-casing: genreOverlap = |lower(requested) \cap lower(book
\* genres)| / |lower(requested)|.
C6_ScoreFormulaLower ==
    Scored =>
      /\ {scored[j].rec : j \in 1..Len(scored)} = Survivors
      /\ \A j \in 1..Len(scored) :
            scored[j].score
              = ClaimScore(ClaimOverlapLower(DEMO_DB[scored[j].rec]),
                           DEMO_DB[scored[j].rec])

\* discover mode scores an old, unpopular book with half of the requested
\* genres (matched across letter case) and another tone
C6_Witness ==
    /\ Scored /\ mode = "discover" /\ explore_strength = 100
    /\ \E j \in 1..Len(scored) :
          LET rec == DEMO_DB[scored[j].rec]
          IN  /\ rec.genres = {"SF"} /\ prefs.genres = {"sf", "novel"}
              /\ prefs.tone # None /\ prefs.tone # rec.tone
              /\ rec.year < Cutoff /\ rec.popularity = 20
              /\ scored[j].score = 55 * 50 + 30 * 20 + 15 * 50 + 100 * 80

\* two scored entries that differ in popularity alone
SameButPopularity(x, y) ==
    LET a == DEMO_DB[x.rec]
        b == DEMO_DB[y.rec]
    IN  /\ a.popularity < b.popularity
        /\ ClaimOverlapLower(a) = ClaimOverlapLower(b)
        /\ ClaimTone(a) = ClaimTone(b)
        /\ ClaimRecency(a) = ClaimRecency(b)

\* score(a) - score(b) under discover with strength e
DiscoverGap(x, y, e) ==
    Score(prefs, DEMO_DB[x.rec], "discover", e)
    - Score(prefs, DEMO_DB[y.rec], "discover", e)

\* C7: in discover mode, for books a, b that differ in popularity alone with
\* popularity(a) < popularity(b), score(a) - score(b) does not shrink as
\* explore_strength grows.
C7_ExploreMonotone ==
    Scored /\ mode = "discover" =>
      \A i, j \in 1..Len(scored) :
        SameButPopularity(scored[i], scored[j]) =>
          \A e \in ExploreVals \cup {DefaultExplore} :
            /\ e <= explore_strength =>
                  scored[i].score - scored[j].score
                    >= DiscoverGap(scored[i], scored[j], e)
            /\ e >= explore_strength =>
                  scored[i].score - scored[j].score
                    <= DiscoverGap(scored[i], scored[j], e)

\* such a pair is scored at the larger strength, and its gap is strictly
\* larger than at a smaller one
C7_Witness ==
    /\ Scored /\ mode = "discover"
    /\ \E i, j \in 1..Len(scored) :
          /\ SameButPopularity(scored[i], scored[j])
          /\ \E e \in ExploreVals :
                /\ e < explore_strength
                /\ scored[i].score - scored[j].score
                     > DiscoverGap(scored[i], scored[j], e)

\* the rationale the claim C8 words, for one record
ClaimWhy(rec) ==
    (IF ClaimOverlapLower(rec) > 0 THEN <<"genre match">> ELSE <<>>)
    \o (IF ClaimTone(rec) = 100 THEN <<"tone match">> ELSE <<>>)
    \o (IF prefs.recent_only THEN <<"recent-years filter">> ELSE <<>>)
    \o <<CASE mode = "discover" -> "discovery boost"
           [] mode = "famous" -> "popularity boost"
           [] mode = "balanced" -> "balanced boost">>

\* C8: every scored book's rationale holds, in this order, "genre match"
\* exactly when genreOverlap > 0, "tone match" exactly when toneMatch = 1.0,
\* "recent-years filter" exactly when recent_only is set, and last exactly
\* one mode tag.
C8_Rationale ==
    Scored => \A j \in 1..Len(scored) :
                 scored[j].why = ClaimWhy(DEMO_DB[scored[j].rec])

\* one call attaches the full four-tag rationale to one book and only the
\* filter and mode tags to another
C8_Witness ==
    /\ Scored
    /\ \E j \in 1..Len(scored) :
          scored[j].why = <<"genre match", "tone match",
                            "recent-years filter", "discovery boost">>
    /\ \E j \in 1..Len(scored) :
          scored[j].why = <<"recent-years filter", "discovery boost">>

\* C9: of two survivors with equal scores, the one earlier in the catalog
\* comes first in the sorted list, and in the result when both are picked.
C9_StableTies ==
    /\ Sorted =>
         \A i, j \in 1..Len(scored) :
            i < j /\ scored[i].score = scored[j].score
              => scored[i].rec < scored[j].rec
    /\ \A i, j \in 1..Len(picked) :
          i < j /\ picked[i].score = picked[j].score
            => picked[i].rec < picked[j].rec

\* two equal-scored books are both picked, in catalog order, behind a
\* higher-scored book that stands between them in the catalog
C9_Witness ==
    /\ Done
    /\ \E h, i, j \in 1..Len(picked) :
          /\ h < i /\ i < j
          /\ picked[i].score = picked[j].score
          /\ picked[h].score > picked[i].score
          /\ picked[i].rec < picked[h].rec /\ picked[h].rec < picked[j].rec
====
